---- MODULE Spec2Model ----
(***************************************************************************)
(* Model of the coinrich back-testing engine:                              *)
(*   coinrich/backtest/backtest.py         Backtest.run (position          *)
(*                                         simulator)                      *)
(*   coinrich/backtest/backtest_result.py  BacktestResult (analytics)      *)
(*   coinrich/strategy/adaptive_strategy.py, coinrich/utils/indicators.py  *)
(*                                         (signals, regime, indicators)   *)
(*                                                                         *)
(* Python floats are modelled as exact rationals <<n, d>> in lowest terms  *)
(* (d > 0), with NaN == <<0, 0>> and +inf == <<1, 0>>; float rounding is   *)
(* not modelled.  DataFrame columns are functions over the 0-based row     *)
(* numbers 0 .. N-1, as in the source.                                     *)
(***************************************************************************)
EXTENDS Integers, Sequences, FiniteSets, TLC

(***************************************************************************)
(* Bounds of the model.                                                    *)
(***************************************************************************)
MaxBars == 4

MaxRuns == 2

Closes == {2, 3}

(***************************************************************************)
(* Rational arithmetic standing in for float arithmetic.                   *)
(***************************************************************************)
Abs(x) == IF x < 0 THEN -x ELSE x

RECURSIVE GCD(_, _)
GCD(a, b) == IF b = 0 THEN a ELSE GCD(b, a % b)

NaN == <<0, 0>>

Inf == <<1, 0>>

Rat(n, d) ==
    IF d = 0 THEN (IF n > 0 THEN Inf ELSE NaN)
    ELSE LET g == GCD(Abs(n), Abs(d))
             s == IF d < 0 THEN -1 ELSE 1
         IN  <<(s * n) \div g, (s * d) \div g>>

Zero == <<0, 1>>

One == <<1, 1>>

IsNum(x) == x[2] # 0

RNeg(x) == <<-x[1], x[2]>>

RAdd(x, y) ==
    IF ~IsNum(x) \/ ~IsNum(y) THEN (IF x = Inf /\ y # NaN THEN Inf
                                    ELSE IF y = Inf /\ x # NaN THEN Inf ELSE NaN)
    ELSE LET g == GCD(x[2], y[2])
         IN  Rat(x[1] * (y[2] \div g) + y[1] * (x[2] \div g), (x[2] \div g) * y[2])

RSub(x, y) == IF ~IsNum(y) THEN NaN ELSE RAdd(x, RNeg(y))

RMul(x, y) ==
    IF ~IsNum(x) \/ ~IsNum(y) THEN NaN
    ELSE LET g1 == GCD(Abs(x[1]), y[2])
             g2 == GCD(Abs(y[1]), x[2])
         IN  Rat((x[1] \div g1) * (y[1] \div g2), (x[2] \div g2) * (y[2] \div g1))

\* x / y on floats: a zero divisor gives inf or NaN, never an exact value
RDiv(x, y) ==
    IF IsNum(x) /\ y = Inf THEN Zero
    ELSE IF ~IsNum(x) \/ ~IsNum(y) THEN NaN
    ELSE IF y[1] = 0 THEN (IF x[1] > 0 THEN Inf ELSE NaN)
    ELSE RMul(x, IF y[1] < 0 THEN <<-y[2], -y[1]>> ELSE <<y[2], y[1]>>)

\* comparisons with NaN are false, as for floats
RLt(x, y) == IsNum(x) /\ IsNum(y) /\ x[1] * y[2] < y[1] * x[2]

RLe(x, y) == IsNum(x) /\ IsNum(y) /\ x[1] * y[2] <= y[1] * x[2]

RAbs(x) == <<Abs(x[1]), x[2]>>

Int2R(k) == <<k, 1>>

\* Python None, as a record so that it compares with the dicts it stands in for
None == [none |-> TRUE]

\* None where a float is expected (Optional[float]), as a tuple so that it
\* compares with the floats
NoFloat == <<>>

RECURSIVE RSum(_)
RSum(s) == IF s = <<>> THEN Zero ELSE RAdd(Head(s), RSum(Tail(s)))

RMax(x, y) == IF RLt(x, y) THEN y ELSE x

(***************************************************************************)
(* State.  data, strategy parameters and the three configuration values    *)
(* are the fields of the Backtest object; indicators .. equity are the     *)
(* columns of the DataFrame df that run() builds; trades and               *)
(* current_position are run()'s locals; i is the loop index; buy_signal    *)
(* and sell_signal record what the strategy answered (or would answer) at  *)
(* each bar; result is the BacktestResult; first keeps the outcome of the  *)
(* first run() of the object.  index is the index of data (the timestamp   *)
(* of every row, in minutes).  args holds the arguments of a direct call   *)
(* of a function of indicators.py (None when there is no such call);       *)
(* stats is the mapping result.trade_statistics() returned.                *)
(* db is the candles table of CandleDB, exchange the candle history the  *)
(* exchange serves through UpbitAPI, call the activation record of the    *)
(* latest CandleService.get_minute_candles, log the API requests and the  *)
(* pauses of that call, returned the candle list it returned.             *)
(***************************************************************************)
VARIABLES data, index, initial_capital, position_size, commission, args,
          indicators, trending, position, capital, coin_value, equity,
          trades, current_position, i, pc,
          buy_signal, sell_signal, result, runs, first, stats,
          db, exchange, call, log, returned

config == <<data, index, initial_capital, position_size, commission, args>>

frame == <<indicators, trending, position, capital, coin_value, equity>>

service == <<db, exchange, call, log, returned>>

vars == <<data, index, initial_capital, position_size, commission, args,
          indicators, trending, position, capital, coin_value, equity,
          trades, current_position, i, pc,
          buy_signal, sell_signal, result, runs, first, stats,
          db, exchange, call, log, returned>>

N == Cardinality(DOMAIN data)

Rows == 0 .. (N - 1)

Close(k) == Int2R(data[k].close)

\* minutes between two consecutive rows of the index (60-minute candles)
BarMinutes == 60

\* df.index[k]
Timestamp(k) == index[k]

MarketState(t) == IF t THEN "trending" ELSE "ranging"

(***************************************************************************)
(* Backtest.run: the arithmetic of one loop iteration.                     *)
(***************************************************************************)
HalfInvestment(cap) == RMul(cap, Rat(1, 2))

\* line 84: investment = capital[i] * position_size
Investment(cap) == RMul(cap, position_size)

\* lines 87 and 125: fee = amount * commission
Fee(amount) == RMul(amount, commission)

GrossQuantity(investment, fee, price) == RDiv(investment, price)

\* lines 88-91: quantity = (investment - fee) / current_price
Quantity(investment, fee, price) == RDiv(RSub(investment, fee), price)

\* line 94: capital[i] = capital[i] - investment
CapitalAfterBuy(cap, investment, fee) == RSub(cap, investment)

\* line 95: coin_value[i] = quantity * current_price
CoinValue(quantity, price) == RMul(quantity, price)

StaleMark(pos, price) == RMul(pos.quantity, pos.entry_price)

\* line 111: coin_value[i] = current_position['quantity'] * current_price
MarkToMarket(pos, price) == RMul(pos.quantity, price)

GrossSellValue(sell_value, fee) == sell_value

\* line 126: actual_sell_value = sell_value - fee
ActualSellValue(sell_value, fee) == RSub(sell_value, fee)

\* line 129: capital[i] = capital[i] + actual_sell_value
CapitalAfterSell(cap, actual_sell_value) == RAdd(cap, actual_sell_value)

NetPnl(actual_sell_value, pos) ==
    RSub(actual_sell_value, RSub(pos.investment, pos.fee_paid))

\* line 134: pnl = actual_sell_value - current_position['investment']
Pnl(actual_sell_value, pos) == RSub(actual_sell_value, pos.investment)

\* line 135: pnl_pct = pnl / current_position['investment']
PnlPct(pnl, pos) == RDiv(pnl, pos.investment)

CashOnly(cap, coin) == cap

\* line 152: equity[i] = capital[i] + coin_value[i]
Equity(cap, coin) == RAdd(cap, coin)

AnyBranch(prev_position, cur) == TRUE

\* line 76: the branch that looks at the buy signal
FlatBranch(prev_position, cur) == prev_position = 0

\* line 109: the branch that looks at the sell signal
LongBranch(prev_position, cur) == prev_position = 1 /\ cur # None

\* lines 99-106: the dict opened at an entry
OpenPosition(k, price, quantity, investment, fee) ==
    [entry_date   |-> Timestamp(k),
     entry_price  |-> price,
     quantity     |-> quantity,
     investment   |-> investment,
     fee_paid     |-> fee,
     market_state |-> MarketState(trending[k])]

\* lines 137-146: the same dict completed at the exit
CloseTrade(pos, k, price, sell_value, fee, pnl, pnl_pct) ==
    [entry_date        |-> pos.entry_date,
     entry_price       |-> pos.entry_price,
     quantity          |-> pos.quantity,
     investment        |-> pos.investment,
     fee_paid          |-> pos.fee_paid,
     market_state      |-> pos.market_state,
     exit_date         |-> Timestamp(k),
     exit_price        |-> price,
     exit_value        |-> sell_value,
     exit_fee          |-> fee,
     total_fee         |-> RAdd(fee, pos.fee_paid),
     pnl               |-> pnl,
     pnl_pct           |-> pnl_pct,
     exit_market_state |-> MarketState(trending[k])]

StillOpen(pos) == pos

\* line 149: current_position = None
Closed(pos) == None

Replaced(ts, t) == <<t>>

\* line 148: trades.append(current_position)
Recorded(ts, t) == Append(ts, t)

(***************************************************************************)
(* One iteration of the loop of Backtest.run (lines 67-152) at row k, as   *)
(* a record of what it leaves in row k and in the locals.  buy and sell    *)
(* are the last elements of strategy.entry_signals / exit_signals.         *)
(***************************************************************************)
Iteration(k, buy, sell) ==
    LET price == Close(k)
        \* lines 69-71: row k starts as a copy of row k-1
        pos0  == position[k - 1]
        cap0  == capital[k - 1]
        coin0 == coin_value[k - 1]
        copy  == [position |-> pos0, capital |-> cap0, coin_value |-> coin0,
                  cur |-> current_position, trades |-> trades]
    IN
    IF FlatBranch(pos0, current_position) THEN
        IF buy THEN
            LET investment == Investment(cap0)
                fee        == Fee(investment)
                quantity   == Quantity(investment, fee, price)
            IN  [position   |-> 1,
                 capital    |-> CapitalAfterBuy(cap0, investment, fee),
                 coin_value |-> CoinValue(quantity, price),
                 cur        |-> OpenPosition(k, price, quantity, investment, fee),
                 trades     |-> trades]
        ELSE copy
    ELSE IF LongBranch(pos0, current_position) THEN
        LET held == MarkToMarket(current_position, price)
        IN
        IF sell THEN
            LET sell_value        == held
                fee               == Fee(sell_value)
                actual_sell_value == ActualSellValue(sell_value, fee)
                pnl               == Pnl(actual_sell_value, current_position)
                pnl_pct           == PnlPct(pnl, current_position)
            IN  [position   |-> 0,
                 capital    |-> CapitalAfterSell(cap0, actual_sell_value),
                 coin_value |-> Zero,
                 cur        |-> Closed(current_position),
                 trades     |-> Recorded(trades,
                                  CloseTrade(current_position, k, price, sell_value,
                                             fee, pnl, pnl_pct))]
        ELSE [copy EXCEPT !.coin_value = held]
    ELSE copy

(***************************************************************************)
(* BacktestResult.calculate_metrics.  annual_return, volatility and        *)
(* sharpe_ratio need roots and are left out; every other attribute is      *)
(* computed as the source computes it.                                     *)
(***************************************************************************)
SeqOf(col) == [k \in 1 .. N |-> col[k - 1]]

\* Series.pct_change().dropna(): e[k] / e[k-1] - 1, the undefined ones dropped
PctChange(e) ==
    SelectSeq([k \in 1 .. Len(e) |->
                  IF k = 1 THEN NaN ELSE RSub(RDiv(e[k], e[k - 1]), One)],
              LAMBDA x : x # NaN)

RECURSIVE CumProd(_)
CumProd(s) ==
    IF s = <<>> THEN <<>>
    ELSE LET front == CumProd(SubSeq(s, 1, Len(s) - 1))
             last  == IF front = <<>> THEN One ELSE front[Len(front)]
         IN  Append(front, RMul(last, s[Len(s)]))

RECURSIVE CumMax(_)
CumMax(s) ==
    IF s = <<>> THEN <<>>
    ELSE LET front == CumMax(SubSeq(s, 1, Len(s) - 1))
         IN  Append(front, IF front = <<>> THEN s[Len(s)]
                           ELSE RMax(front[Len(front)], s[Len(s)]))

\* Series.max(): NaN for an empty series
RECURSIVE SeriesMax(_)
SeriesMax(s) ==
    IF s = <<>> THEN NaN
    ELSE IF Len(s) = 1 THEN s[1]
    ELSE RMax(s[1], SeriesMax(Tail(s)))

\* lines 96-98
MaxDrawdown(daily_returns) ==
    LET cumulative == CumProd([k \in 1 .. Len(daily_returns) |->
                                  RAdd(One, daily_returns[k])])
        cummax     == CumMax(cumulative)
        drawdown   == [k \in 1 .. Len(cumulative) |->
                          RSub(One, RDiv(cumulative[k], cummax[k]))]
    IN  SeriesMax(drawdown)

Mean(s) == RDiv(RSum(s), Int2R(Len(s)))

PnlPcts(ts) == [k \in 1 .. Len(ts) |-> ts[k].pnl_pct]

FiniteProfitFactor(avg_win, avg_loss) ==
    IF avg_loss # Zero THEN RAbs(RDiv(avg_win, avg_loss)) ELSE Zero

\* line 65: abs(avg_win / avg_loss) if avg_loss != 0 else float('inf')
ProfitFactor(avg_win, avg_loss) ==
    IF avg_loss # Zero THEN RAbs(RDiv(avg_win, avg_loss)) ELSE Inf

\* lines 43-71
TradeMetrics(ts) ==
    IF Len(ts) > 0 THEN
        LET winning_trades == SelectSeq(ts, LAMBDA t : RLt(Zero, t.pnl))
            losing_trades  == SelectSeq(ts, LAMBDA t : RLe(t.pnl, Zero))
            avg_win  == IF winning_trades # <<>> THEN Mean(PnlPcts(winning_trades))
                        ELSE Zero
            avg_loss == IF losing_trades # <<>> THEN Mean(PnlPcts(losing_trades))
                        ELSE Zero
        IN  [win_rate      |-> Rat(Len(winning_trades), Len(ts)),
             avg_return    |-> Mean(PnlPcts(ts)),
             avg_win       |-> avg_win,
             avg_loss      |-> avg_loss,
             profit_factor |-> ProfitFactor(avg_win, avg_loss)]
    ELSE [win_rate |-> Zero, avg_return |-> Zero, avg_win |-> Zero,
          avg_loss |-> Zero, profit_factor |-> Zero]

\* lines 100-107, in minutes
AvgHoldingPeriod(ts) ==
    IF Len(ts) > 0
    THEN Mean([k \in 1 .. Len(ts) |-> Int2R(ts[k].exit_date - ts[k].entry_date)])
    ELSE Zero

\* lines 30-107
CalculateMetrics(e, ts) ==
    LET tm == TradeMetrics(ts)
        daily_returns == PctChange(e)
    IN  [initial_equity     |-> e[1],
         final_equity       |-> e[Len(e)],
         total_return       |-> RSub(RDiv(e[Len(e)], e[1]), One),
         num_trades         |-> Len(ts),
         win_rate           |-> tm.win_rate,
         avg_return         |-> tm.avg_return,
         avg_win            |-> tm.avg_win,
         avg_loss           |-> tm.avg_loss,
         profit_factor      |-> tm.profit_factor,
         max_drawdown       |-> MaxDrawdown(daily_returns),
         avg_holding_period |-> AvgHoldingPeriod(ts),
         trades             |-> ts,
         equity             |-> e]

\* lines 147-182: the dict returned for the BacktestResult r
trade_statistics(r) ==
    LET base ==
            [total_trades       |-> r.num_trades,
             win_rate           |-> r.win_rate,
             avg_return         |-> r.avg_return,
             avg_win            |-> r.avg_win,
             avg_loss           |-> r.avg_loss,
             profit_factor      |-> r.profit_factor,
             avg_holding_period |-> r.avg_holding_period]
        trending_trades == SelectSeq(r.trades, LAMBDA t : t.market_state = "trending")
        ranging_trades  == SelectSeq(r.trades, LAMBDA t : t.market_state = "ranging")
        trending_wins   == SelectSeq(trending_trades, LAMBDA t : RLt(Zero, t.pnl))
        ranging_wins    == SelectSeq(ranging_trades, LAMBDA t : RLt(Zero, t.pnl))
    IN  IF r.trades # <<>> THEN
            base @@
            [trending_win_rate   |-> IF trending_trades # <<>>
                                     THEN Rat(Len(trending_wins), Len(trending_trades))
                                     ELSE Zero,
             trending_avg_return |-> IF trending_trades # <<>>
                                     THEN Mean(PnlPcts(trending_trades))
                                     ELSE Zero,
             ranging_win_rate    |-> IF ranging_trades # <<>>
                                     THEN Rat(Len(ranging_wins), Len(ranging_trades))
                                     ELSE Zero,
             ranging_avg_return  |-> IF ranging_trades # <<>>
                                     THEN Mean(PnlPcts(ranging_trades))
                                     ELSE Zero]
        ELSE base

(***************************************************************************)
(* coinrich/utils/indicators.py.  A frame d is a function from the row     *)
(* numbers 0 .. n-1 to bars; a series is a function from the same rows to  *)
(* values.  The rolling windows are pandas' (min_periods = window): the     *)
(* value is NaN until the window is full and whenever it holds a NaN.      *)
(***************************************************************************)
Size(d) == Cardinality(DOMAIN d)

\* a pandas Series holds its values: the function is tabulated once
Series(f) == f @@ <<>>

\* df.iloc[:k+1]
Prefix(d, k) == [j \in 0 .. k |-> d[j]]

CloseOf(d) == Series([k \in DOMAIN d |-> Int2R(d[k].close)])

HighOf(d) == Series([k \in DOMAIN d |-> Int2R(d[k].high)])

LowOf(d) == Series([k \in DOMAIN d |-> Int2R(d[k].low)])

RECURSIVE WindowSum(_, _, _)
WindowSum(s, lo, hi) == IF lo > hi THEN Zero ELSE RAdd(s[lo], WindowSum(s, lo + 1, hi))

RECURSIVE WindowMax(_, _, _)
WindowMax(s, lo, hi) == IF lo = hi THEN s[lo] ELSE RMax(s[lo], WindowMax(s, lo + 1, hi))

RMin(x, y) == IF RLt(y, x) THEN y ELSE x

RECURSIVE WindowMin(_, _, _)
WindowMin(s, lo, hi) == IF lo = hi THEN s[lo] ELSE RMin(s[lo], WindowMin(s, lo + 1, hi))

\* Series.rolling(window=period).sum()
RollingSum(s, period) ==
    Series([k \in DOMAIN s |->
               IF k + 1 < period THEN NaN ELSE WindowSum(s, k - period + 1, k)])

\* Series.rolling(window=period).mean()
RollingMean(s, period) ==
    LET sums == RollingSum(s, period)
    IN  Series([k \in DOMAIN s |-> RDiv(sums[k], Int2R(period))])

\* Series.rolling(window=period).max() and .min()
RollingMax(s, period) ==
    Series([k \in DOMAIN s |->
               IF k + 1 < period THEN NaN ELSE WindowMax(s, k - period + 1, k)])

RollingMin(s, period) ==
    Series([k \in DOMAIN s |->
               IF k + 1 < period THEN NaN ELSE WindowMin(s, k - period + 1, k)])

\* the square of Series.rolling(window=period).std(): the sample variance
RollingVar(s, period) ==
    LET mean == RollingMean(s, period)
    IN  Series([k \in DOMAIN s |->
            IF k + 1 < period THEN NaN
            ELSE RDiv(WindowSum([j \in DOMAIN s |->
                                    RMul(RSub(s[j], mean[k]), RSub(s[j], mean[k]))],
                                k - period + 1, k),
                      Int2R(period - 1))])

\* Series.diff()
Diff(s) == Series([k \in DOMAIN s |-> IF k = 0 THEN NaN ELSE RSub(s[k], s[k - 1])])

LookaheadAverage(d, period) ==
    LET mean == RollingMean(CloseOf(d), period)
    IN  Series([k \in DOMAIN d |-> mean[IF k + 1 \in DOMAIN d THEN k + 1 ELSE k]])

\* lines 6-17
moving_average(d, period) == RollingMean(CloseOf(d), period)

\* Series.ewm(span=span, adjust=False).mean(): y[0] = x[0] and
\* y[k] = (1 - alpha) * y[k-1] + alpha * x[k] with alpha = 2 / (span + 1)
RECURSIVE EwmAt(_, _, _)
EwmAt(s, span, k) ==
    IF k = 0 THEN s[0]
    ELSE LET alpha == Rat(2, span + 1)
         IN  RAdd(RMul(RSub(One, alpha), EwmAt(s, span, k - 1)), RMul(alpha, s[k]))

EwmMean(s, span) == Series([k \in DOMAIN s |-> EwmAt(s, span, k)])

\* lines 20-31
exponential_moving_average(d, period) == EwmMean(CloseOf(d), period)

\* lines 95-126
macd(d, fast, slow, signal) ==
    LET fast_ema    == exponential_moving_average(d, fast)
        slow_ema    == exponential_moving_average(d, slow)
        macd_line   == Series([k \in DOMAIN d |-> RSub(fast_ema[k], slow_ema[k])])
        signal_line == EwmMean(macd_line, signal)
    IN  [macd      |-> macd_line,
         signal    |-> signal_line,
         histogram |-> Series([k \in DOMAIN d |-> RSub(macd_line[k], signal_line[k])])]

\* lines 34-61: the middle band and the squared distance std_dev^2 * var of
\* the outer bands from it (the bands themselves are middle -+ its root)
bollinger_bands(d, period, std_dev) ==
    LET var == RollingVar(CloseOf(d), period)
    IN  [middle |-> moving_average(d, period),
         dist2  |-> Series([k \in DOMAIN d |-> RMul(RMul(std_dev, std_dev), var[k])])]

\* lines 64-92
rsi(d, period) ==
    LET delta    == Diff(CloseOf(d))
        gain     == Series([k \in DOMAIN d |->
                               IF RLt(Zero, delta[k]) THEN delta[k] ELSE Zero])
        loss     == Series([k \in DOMAIN d |->
                               IF RLt(delta[k], Zero) THEN RNeg(delta[k]) ELSE Zero])
        avg_gain == RollingMean(gain, period)
        avg_loss == RollingMean(loss, period)
    IN  Series([k \in DOMAIN d |->
            LET rs == RDiv(avg_gain[k], avg_loss[k])
            IN  RSub(Int2R(100), RDiv(Int2R(100), RAdd(One, rs)))])

\* lines 163-172 and 376-382: max over the defined ones of high - low,
\* |high - prev_close|, |low - prev_close|
TrueRange(d) ==
    LET high  == HighOf(d)
        low   == LowOf(d)
        close == CloseOf(d)
    IN  Series([k \in DOMAIN d |->
            LET tr1 == RSub(high[k], low[k])
            IN  IF k = 0 THEN tr1
                ELSE RMax(tr1, RMax(RAbs(RSub(high[k], close[k - 1])),
                                    RAbs(RSub(low[k], close[k - 1]))))])

\* lines 153-177
atr(d, period) == RollingMean(TrueRange(d), period)

\* lines 273-324
adx(d, period) ==
    LET high_diff == Diff(HighOf(d))
        low_delta == Diff(LowOf(d))
        low_diff  == Series([k \in DOMAIN d |-> RNeg(low_delta[k])])
        plus_dm   == Series([k \in DOMAIN d |->
                         IF RLt(low_diff[k], high_diff[k]) /\ RLt(Zero, high_diff[k])
                         THEN high_diff[k] ELSE Zero])
        minus_dm  == Series([k \in DOMAIN d |->
                         IF RLt(high_diff[k], low_diff[k]) /\ RLt(Zero, low_diff[k])
                         THEN low_diff[k] ELSE Zero])
        tr        == atr(d, 1)
        smoothed_plus_dm  == RollingSum(plus_dm, period)
        smoothed_minus_dm == RollingSum(minus_dm, period)
        smoothed_tr       == RollingSum(tr, period)
        plus_di  == Series([k \in DOMAIN d |->
                        RMul(Int2R(100), RDiv(smoothed_plus_dm[k], smoothed_tr[k]))])
        minus_di == Series([k \in DOMAIN d |->
                        RMul(Int2R(100), RDiv(smoothed_minus_dm[k], smoothed_tr[k]))])
        dx       == Series([k \in DOMAIN d |->
                        RMul(Int2R(100), RDiv(RAbs(RSub(plus_di[k], minus_di[k])),
                                              RAbs(RAdd(plus_di[k], minus_di[k]))))])
    IN  [adx |-> RollingMean(dx, period), plus_di |-> plus_di, minus_di |-> minus_di]

\* The periods of adx and choppiness_index on this call path (the defaults
\* of is_trending_market and adx, 14 in the source), scaled down so that the
\* regime is defined within MaxBars rows.
AdxPeriod == 2

ChopPeriod == 2

\* lines 359-395.  chop = 100 * log10(atr_sum / price_range) / log10(period)
\* increases with the ratio atr_sum / price_range; the series holds that
\* ratio, and a threshold on chop is converted to the ratio where it is used.
choppiness_index(d, period) ==
    LET atr_sum     == RollingSum(TrueRange(d), period)
        high_max    == RollingMax(HighOf(d), period)
        low_min     == RollingMin(LowOf(d), period)
    IN  Series([k \in DOMAIN d |-> RDiv(atr_sum[k], RSub(high_max[k], low_min[k]))])

\* line 329: the default of chop_threshold, 38.2
DefaultChopThreshold == Rat(382, 10)

\* period ^ (chop_threshold / 100), the ratio at which chop = chop_threshold:
\* exact for the thresholds 0 and 100, and to three decimals for 38.2
ChopRatioThreshold(chop_threshold, period) ==
    CASE chop_threshold = Zero -> One
      [] chop_threshold = Int2R(100) -> Int2R(period)
      [] chop_threshold = DefaultChopThreshold /\ period = 2 -> Rat(1303, 1000)
      [] chop_threshold = DefaultChopThreshold /\ period = 3 -> Rat(1521, 1000)
      [] chop_threshold = DefaultChopThreshold /\ period = 4 -> Rat(1698, 1000)

StrictlyTrending(adx_value, chop_ratio, adx_thr, ratio_thr) ==
    RLt(adx_thr, adx_value) /\ RLt(chop_ratio, ratio_thr)

\* line 354: (adx_values >= adx_threshold) & (chop <= chop_threshold)
Trending(adx_value, chop_ratio, adx_thr, ratio_thr) ==
    RLe(adx_thr, adx_value) /\ RLe(chop_ratio, ratio_thr)

\* lines 327-356
is_trending_market(d, adx_thr, chop_thr, adx_per, chop_per) ==
    LET adx_values == adx(d, adx_per).adx
        chop       == choppiness_index(d, chop_per)
        ratio_thr  == ChopRatioThreshold(chop_thr, chop_per)
    IN  [trending   |-> Series([k \in DOMAIN d |->
                                   Trending(adx_values[k], chop[k], adx_thr, ratio_thr)]),
         adx_values |-> adx_values,
         chop       |-> chop]

(***************************************************************************)
(* coinrich/strategy/adaptive_strategy.py, AdaptivePositionStrategy.       *)
(* The parameters are those of the params dict.                            *)
(***************************************************************************)
adx_threshold == 25

ma_short_period == 2

ma_long_period == 3

bb_period == 3

bb_std_dev == One

rsi_period == 2

rsi_oversold == 30

rsi_overbought == 70

take_profit == Rat(2, 5)

stop_loss == Rat(3, 10)

\* lines 45-59
analyze_market(d) ==
    is_trending_market(d, Int2R(adx_threshold), DefaultChopThreshold,
                       AdxPeriod, ChopPeriod).trending

\* lines 61-78
detect_market_state_change(tr, lookback) ==
    [k \in DOMAIN tr |-> k >= lookback /\ tr[k] # tr[k - lookback]]

\* lines 80-110; bb_upper and bb_lower are bb_middle +- the root of bb_dist2
calculate_indicators(d) ==
    LET bb         == bollinger_bands(d, bb_period, bb_std_dev)
        adx_result == adx(d, AdxPeriod)
    IN  [close     |-> CloseOf(d),
         ma_short  |-> moving_average(d, ma_short_period),
         ma_long   |-> moving_average(d, ma_long_period),
         bb_middle |-> bb.middle,
         bb_dist2  |-> bb.dist2,
         rsi       |-> rsi(d, rsi_period),
         adx       |-> adx_result.adx,
         plus_di   |-> adx_result.plus_di,
         minus_di  |-> adx_result.minus_di]

NotAboveLower(x, middle, dist2) ==
    ~(RLt(middle, x) \/ RLt(RMul(RSub(middle, x), RSub(middle, x)), dist2))

\* x <= middle - root(dist2)
AtOrBelowLower(x, middle, dist2) ==
    /\ RLe(x, middle)
    /\ RLe(dist2, RMul(RSub(middle, x), RSub(middle, x)))

\* x >= middle + root(dist2)
AtOrAboveUpper(x, middle, dist2) ==
    /\ RLe(middle, x)
    /\ RLe(dist2, RMul(RSub(x, middle), RSub(x, middle)))

RegimeBlindEntry(f, tr) ==
    [k \in DOMAIN tr |->
        /\ k # 0
        /\ \/ RLt(f.ma_long[k], f.ma_short[k]) /\ RLe(f.ma_short[k - 1], f.ma_long[k - 1])
           \/ RLt(f.minus_di[k], f.plus_di[k]) /\ RLe(f.plus_di[k - 1], f.minus_di[k - 1])
           \/ AtOrBelowLower(f.close[k], f.bb_middle[k], f.bb_dist2[k])
           \/ RLt(f.rsi[k], Int2R(rsi_oversold))]

\* lines 112-143
entry_signals(f, tr) ==
    [k \in DOMAIN tr |->
        IF k = 0 THEN FALSE
        ELSE IF tr[k] THEN
            LET golden_cross == /\ RLt(f.ma_long[k], f.ma_short[k])
                                /\ RLe(f.ma_short[k - 1], f.ma_long[k - 1])
                di_cross     == /\ RLt(f.minus_di[k], f.plus_di[k])
                                /\ RLe(f.plus_di[k - 1], f.minus_di[k - 1])
            IN  golden_cross \/ di_cross
        ELSE
            LET bb_bottom  == AtOrBelowLower(f.close[k], f.bb_middle[k], f.bb_dist2[k])
                oversold   == RLt(f.rsi[k], Int2R(rsi_oversold))
            IN  bb_bottom \/ oversold]

UnforcedExit(f, tr, position_open_price) ==
    [k \in DOMAIN tr |-> detect_market_state_change(tr, 1)[k]]

\* lines 145-200; position_open_price is None (NoFloat) or the entry price
exit_signals(f, tr, position_open_price) ==
    LET state_change == detect_market_state_change(tr, 1)
    IN  [k \in DOMAIN tr |->
            IF k = 0 THEN FALSE
            ELSE IF state_change[k] THEN TRUE
            ELSE
                LET rule ==
                        IF tr[k] THEN
                            LET dead_cross == /\ RLt(f.ma_short[k], f.ma_long[k])
                                              /\ RLe(f.ma_long[k - 1], f.ma_short[k - 1])
                                di_cross   == /\ RLt(f.plus_di[k], f.minus_di[k])
                                              /\ RLe(f.minus_di[k - 1], f.plus_di[k - 1])
                            IN  dead_cross \/ di_cross
                        ELSE
                            LET bb_top     == AtOrAboveUpper(f.close[k], f.bb_middle[k],
                                                             f.bb_dist2[k])
                                overbought == RLt(Int2R(rsi_overbought), f.rsi[k])
                            IN  bb_top \/ overbought
                    pnl_exit ==
                        /\ position_open_price # NoFloat
                        /\ position_open_price # Zero
                        /\ LET profit_pct == RDiv(RSub(f.close[k], position_open_price),
                                                  position_open_price)
                           IN  \/ RLe(take_profit, profit_pct)
                               \/ RLe(profit_pct, RNeg(stop_loss))
                IN  rule \/ pnl_exit]

\* the rows 0 .. k of every column of a frame
FramePrefix(f, k) == [c \in DOMAIN f |-> Prefix(f[c], k)]

\* Backtest.run lines 78-79: the entry rule sees rows 0 .. k of the frame df
\* (indicators and regime computed from the whole data before the loop), and
\* the simulator takes the last element
UsedBuySignal(df, tr, k) == entry_signals(FramePrefix(df, k), Prefix(tr, k))[k]

\* Backtest.run lines 114-118
UsedSellSignal(df, tr, k, entry_price) ==
    exit_signals(FramePrefix(df, k), Prefix(tr, k), entry_price)[k]

(***************************************************************************)
(* Inputs.  The simulator reads only the close of a bar, so under Spec     *)
(* the bars are flat (open = high = low = close).                          *)
(***************************************************************************)
FlatBar(c) == [open |-> c, high |-> c, low |-> c, close |-> c]

FlatData == UNION {[0 .. (n - 1) -> {FlatBar(c) : c \in Closes}] : n \in 1 .. MaxBars}

InitialCapitals == {Int2R(1000)}

PositionSizes == {Rat(1, 2), One}

Commissions == {Zero, Rat(1, 10)}

\* a candle every BarMinutes minutes
RegularIndex(bars) == [k \in DOMAIN bars |-> k * BarMinutes]

\* no CandleService has been constructed
NoService ==
    /\ db = {}
    /\ exchange = <<>>
    /\ call = None
    /\ log = <<>>
    /\ returned = None

\* Backtest.__init__ (lines 33-37) on a frame with rows bars and index idx;
\* nothing of run() exists yet
ConstructedFrom(bars, idx, sizes, commissions) ==
    /\ data = bars
    /\ index = idx
    /\ initial_capital \in InitialCapitals
    /\ position_size \in sizes
    /\ commission \in commissions
    /\ indicators = <<>>
    /\ trending = <<>>
    /\ position = <<>>
    /\ capital = <<>>
    /\ coin_value = <<>>
    /\ equity = <<>>
    /\ trades = <<>>
    /\ current_position = None
    /\ i = 0
    /\ pc = "init"
    /\ buy_signal = FALSE
    /\ sell_signal = FALSE
    /\ result = None
    /\ runs = 0
    /\ first = None
    /\ stats = None

ConstructedWith(bars, idx) == ConstructedFrom(bars, idx, PositionSizes, Commissions)

Constructed(bars) == ConstructedWith(bars, RegularIndex(bars))

Init ==
    /\ NoService
    /\ \E bars \in FlatData : Constructed(bars)
    /\ args = None

StaleLedger == trades

\* line 63: trades = []
NewLedger == <<>>

\* Backtest.run lines 45-64: the frame and the locals before the loop;
\* ind are the columns the strategy's calculate_indicators added and tr is
\* the regime column its analyze_market returned
StartRun(ind, tr) ==
    /\ indicators' = ind
    /\ trending' = tr
    /\ position' = [k \in Rows |-> 0]
    /\ capital' = [k \in Rows |-> initial_capital]
    /\ coin_value' = [k \in Rows |-> Zero]
    /\ equity' = [k \in Rows |-> initial_capital]
    /\ trades' = NewLedger
    /\ current_position' = None
    /\ i' = 1
    /\ pc' = "loop"
    /\ buy_signal' = FALSE
    /\ sell_signal' = FALSE
    /\ result' = None
    /\ stats' = None
    /\ UNCHANGED <<service, config, runs, first>>

\* the regime columns an arbitrary strategy may return: one regime up to
\* row c, the other one from there on
RegimeColumns == {[k \in Rows |-> IF k < c THEN a ELSE ~a] : c \in 0 .. N, a \in BOOLEAN}

\* run() called on a freshly constructed Backtest, with any strategy; the
\* simulator reads none of the indicator columns, which are left out
Start ==
    /\ pc = "init"
    /\ \E tr \in RegimeColumns : StartRun(<<>>, tr)

RowAfterNext(k) == k + 2

\* line 67: for i in range(1, len(df)), the row after row k
NextRow(k) == k + 1

\* line 135 divides by the investment of the position that is sold: a
\* ZeroDivisionError when that investment is 0.0
DividesByZero(k, sell) ==
    /\ LongBranch(position[k - 1], current_position)
    /\ sell
    /\ current_position.investment = Zero

\* Backtest.run lines 67-152: the loop body at row i, given what the
\* strategy answers there
Step(buy, sell) ==
    /\ pc = "loop"
    /\ i < N
    /\ "close" \in DOMAIN data[i]
    /\ ~DividesByZero(i, sell)
    /\ LET row == Iteration(i, buy, sell)
       IN  /\ position' = [position EXCEPT ![i] = row.position]
           /\ capital' = [capital EXCEPT ![i] = row.capital]
           /\ coin_value' = [coin_value EXCEPT ![i] = row.coin_value]
           /\ equity' = [equity EXCEPT ![i] = Equity(row.capital, row.coin_value)]
           /\ current_position' = row.cur
           /\ trades' = row.trades
    /\ i' = NextRow(i)
    /\ buy_signal' = buy
    /\ sell_signal' = sell
    /\ UNCHANGED <<service, config, indicators, trending, pc, result, runs, first, stats>>

\* any strategy: both answers are free at every bar
Bar == \E buy, sell \in BOOLEAN : Step(buy, sell)

ForceClosed(ts, cur) ==
    IF cur = None THEN ts
    ELSE LET price      == Close(N - 1)
             sell_value == CoinValue(cur.quantity, price)
             fee        == Fee(sell_value)
             pnl        == Pnl(ActualSellValue(sell_value, fee), cur)
         IN  Append(ts, CloseTrade(cur, N - 1, price, sell_value, fee, pnl,
                                   PnlPct(pnl, cur)))

\* line 155: the trade list handed to BacktestResult
Ledger(ts, cur) == ts

\* Backtest.run lines 154-157 and BacktestResult.__init__
Finish ==
    /\ pc = "loop"
    /\ i >= N
    /\ N > 0
    /\ LET r == CalculateMetrics(SeqOf(equity), Ledger(trades, current_position))
       IN  /\ result' = r
           /\ first' = IF runs = 0 THEN r ELSE first
    /\ pc' = "done"
    /\ runs' = runs + 1
    /\ UNCHANGED <<service, config, frame, trades, current_position, i, buy_signal, sell_signal,
                   stats>>

Next == Start \/ Bar \/ Finish

Spec == Init /\ [][Next]_vars

\* The control skeleton of run(): into the loop, from one row to the next,
\* out of the loop to the result.  It is enabled exactly when Start, Bar or
\* Finish is, and moves pc and i only.
Advance ==
    /\ \/ pc = "init" /\ pc' = "loop" /\ i' = 1
       \/ pc = "loop" /\ i < N /\ "close" \in DOMAIN data[i] /\ pc' = pc /\ i' = NextRow(i)
       \/ pc = "loop" /\ i >= N /\ N > 0 /\ pc' = "done" /\ i' = i
    /\ UNCHANGED <<service, config, frame, trades, current_position, buy_signal, sell_signal,
                   result, runs, first, stats>>

\* run() is called, and is one sequential call without blocking operation:
\* it does not stay for ever in a state where control can advance
FairSpec == Spec /\ WF_vars(Advance)

(***************************************************************************)
(* The simulator driven by AdaptivePositionStrategy, and run() called      *)
(* again on the same Backtest object.  Bars have a body of one price step; *)
(* the close is at the top of a rising bar and at the bottom of a falling  *)
(* bar.                                                                    *)
(***************************************************************************)
AdaptiveBars ==
    {[open |-> c - 1, high |-> c, low |-> c - 1, close |-> c] : c \in {2, 3, 4}}
        \cup {[open |-> 3, high |-> 3, low |-> 2, close |-> 2]}

AdaptiveData == UNION {[0 .. (n - 1) -> AdaptiveBars] : n \in 1 .. MaxBars}

InitAdaptive ==
    /\ NoService
    /\ \E bars \in AdaptiveData : Constructed(bars)
    /\ position_size = Rat(1, 2)
    /\ commission = Rat(1, 10)
    /\ args = None

OpenPrice == IF current_position = None THEN NoFloat ELSE current_position.entry_price

\* run() on a freshly constructed Backtest
StartAdaptive ==
    /\ pc = "init"
    /\ StartRun(calculate_indicators(data), analyze_market(data))

\* run() called again on the same object after it returned
Rerun ==
    /\ pc = "done"
    /\ runs < MaxRuns
    /\ StartRun(calculate_indicators(data), analyze_market(data))

\* the loop body with the signals of the strategy
AdaptiveBar ==
    /\ pc = "loop"
    /\ i < N
    /\ Step(UsedBuySignal(indicators, trending, i),
            UsedSellSignal(indicators, trending, i, OpenPrice))

\* test_backtest.py line 77: trade_stats = result.trade_statistics()
CallTradeStatistics ==
    /\ pc = "done"
    /\ stats = None
    /\ stats' = trade_statistics(result)
    /\ UNCHANGED <<service, config, frame, trades, current_position, i, pc, buy_signal,
                   sell_signal, result, runs, first>>

NextAdaptive == StartAdaptive \/ AdaptiveBar \/ Finish \/ Rerun \/ CallTradeStatistics

SpecAdaptive == InitAdaptive /\ [][NextAdaptive]_vars

(***************************************************************************)
(* The simulator on frames that need not be well formed: no row at all, a  *)
(* frame without one of the OHLC columns, an index that is not in          *)
(* chronological order.  The index labels stay distinct (the permutations  *)
(* of the regular index), so that df.loc[df.index[k], ...] is row k.       *)
(***************************************************************************)
MaxInputBars == 2

OHLC == {"open", "high", "low", "close"}

ColumnSets == {OHLC} \cup {OHLC \ {c} : c \in OHLC}

InputBar(c, cols) == [f \in cols |-> c]

InputData ==
    UNION {[0 .. (n - 1) -> {InputBar(c, cols) : c \in Closes}] :
               n \in 0 .. MaxInputBars, cols \in ColumnSets}

IndexColumns(bars) ==
    {[k \in DOMAIN bars |-> p[k] * BarMinutes] : p \in Permutations(DOMAIN bars)}

InitInput ==
    /\ NoService
    /\ \E bars \in InputData : \E idx \in IndexColumns(bars) : ConstructedWith(bars, idx)
    /\ position_size = Rat(1, 2)
    /\ args = None

\* line 73 in the first iteration: df has no column 'close'; lines 69-71
\* have copied row i-1 into row i
RaiseKeyError ==
    /\ pc = "loop"
    /\ i < N
    /\ "close" \notin DOMAIN data[i]
    /\ position' = [position EXCEPT ![i] = position[i - 1]]
    /\ capital' = [capital EXCEPT ![i] = capital[i - 1]]
    /\ coin_value' = [coin_value EXCEPT ![i] = coin_value[i - 1]]
    /\ pc' = "error"
    /\ UNCHANGED <<service, config, indicators, trending, equity, trades, current_position, i,
                   buy_signal, sell_signal, result, runs, first, stats>>

\* line 155 on a frame without rows: BacktestResult.__init__ calls
\* calculate_metrics, whose self.equity.iloc[0] (line 33) raises IndexError
RaiseIndexError ==
    /\ pc = "loop"
    /\ i >= N
    /\ N = 0
    /\ pc' = "error"
    /\ UNCHANGED <<service, config, frame, trades, current_position, i, buy_signal, sell_signal,
                   result, runs, first, stats>>

NextInput == Start \/ Bar \/ Finish \/ RaiseKeyError \/ RaiseIndexError

SpecInput == InitInput /\ [][NextInput]_vars

(***************************************************************************)
(* The functions of indicators.py called directly on a frame, with their   *)
(* arguments drawn from small sets.                                        *)
(***************************************************************************)
AdxThresholds == {Int2R(adx_threshold), Int2R(50)}

ChopThresholds == {DefaultChopThreshold, Int2R(100)}

Periods == {2, 3}

IndicatorArgs ==
    [adx_threshold : AdxThresholds, chop_threshold : ChopThresholds] \cup [period : Periods]

InitIndicators ==
    /\ NoService
    /\ \E bars \in AdaptiveData : Constructed(bars)
    /\ position_size = One
    /\ commission = Zero
    /\ args \in IndicatorArgs

\* trending, adx_values, chop = is_trending_market(data, ...)
CallIsTrendingMarket ==
    /\ pc = "init"
    /\ "adx_threshold" \in DOMAIN args
    /\ LET r == is_trending_market(data, args.adx_threshold, args.chop_threshold,
                                   AdxPeriod, ChopPeriod)
       IN  /\ trending' = r.trending
           /\ indicators' = [adx |-> r.adx_values, chop |-> r.chop]
    /\ pc' = "regime"
    /\ UNCHANGED <<service, config, position, capital, coin_value, equity, trades,
                   current_position, i, buy_signal, sell_signal, result, runs, first, stats>>

\* every series of indicators.py that the strategy and the charts use,
\* computed with the lookback period p (macd: fast p, slow p + 1, signal p;
\* bb_dist2 is defined where the upper and lower bands are)
IndicatorFrame(d, p) ==
    LET bb         == bollinger_bands(d, p, bb_std_dev)
        adx_result == adx(d, p)
        macd_result == macd(d, p, p + 1, p)
    IN  [sma       |-> moving_average(d, p),
         bb_middle |-> bb.middle,
         bb_dist2  |-> bb.dist2,
         rsi       |-> rsi(d, p),
         adx       |-> adx_result.adx,
         plus_di   |-> adx_result.plus_di,
         minus_di  |-> adx_result.minus_di,
         ema       |-> exponential_moving_average(d, p),
         macd      |-> macd_result.macd,
         signal    |-> macd_result.signal,
         histogram |-> macd_result.histogram,
         atr       |-> atr(d, p),
         chop      |-> choppiness_index(d, p)]

CallIndicators ==
    /\ pc = "init"
    /\ "period" \in DOMAIN args
    /\ indicators' = IndicatorFrame(data, args.period)
    /\ pc' = "frame"
    /\ UNCHANGED <<service, config, trending, position, capital, coin_value, equity, trades,
                   current_position, i, buy_signal, sell_signal, result, runs, first, stats>>

\* Series.shift(n): the value of row k - n at row k, NaN where there is none
Shift(s, n) == Series([k \in DOMAIN s |-> IF k - n \in DOMAIN s THEN s[k - n] ELSE NaN])

\* (high.rolling(period).max() + low.rolling(period).min()) / 2
MidRange(d, period) ==
    LET high_max == RollingMax(HighOf(d), period)
        low_min  == RollingMin(LowOf(d), period)
    IN  Series([k \in DOMAIN d |-> RDiv(RAdd(high_max[k], low_min[k]), Int2R(2))])

\* lines 180-219
ichimoku(d, tenkan_period, kijun_period, senkou_span_b_period, displacement) ==
    LET tenkan == MidRange(d, tenkan_period)
        kijun  == MidRange(d, kijun_period)
        span_a == Series([k \in DOMAIN d |-> RDiv(RAdd(tenkan[k], kijun[k]), Int2R(2))])
    IN  [tenkan   |-> tenkan,
         kijun    |-> kijun,
         senkou_a |-> Shift(span_a, displacement),
         senkou_b |-> Shift(MidRange(d, senkou_span_b_period), displacement),
         chikou   |-> Shift(CloseOf(d), -displacement)]

\* ichimoku with the lookback period p: tenkan p, kijun and senkou span B
\* p + 1, displacement p - 1
IchimokuFrame(d, p) == ichimoku(d, p, p + 1, p + 1, p - 1)

CallIchimoku ==
    /\ pc = "init"
    /\ "period" \in DOMAIN args
    /\ indicators' = IchimokuFrame(data, args.period)
    /\ pc' = "ichimoku"
    /\ UNCHANGED <<service, config, trending, position, capital, coin_value, equity, trades,
                   current_position, i, buy_signal, sell_signal, result, runs, first, stats>>

NextIndicators == CallIsTrendingMarket \/ CallIndicators \/ CallIchimoku

SpecIndicators == InitIndicators /\ [][NextIndicators]_vars

(***************************************************************************)
(* Properties of the position simulator.                                   *)
(***************************************************************************)
Running == pc \in {"loop", "done"}

RowOf(date) == date \div BarMinutes

\* a loop iteration at row i is being taken
BarStep == pc = "loop" /\ i < N /\ i' = i + 1

WasFlat == position[i - 1] = 0

WasLong == position[i - 1] = 1

\* C1: once run() has built the frame, every row k (row 0, entry rows and
\* exit rows included) has equity[k] = capital[k] + coin_value[k].
C1_EquityIdentity ==
    Running => \A k \in Rows : equity[k] = RAdd(capital[k], coin_value[k])

C1_Witness ==
    /\ pc = "done"
    /\ Len(trades) >= 1
    /\ position[N - 1] = 1
    /\ coin_value[N - 1] # Zero

\* C2: a buy signal at a bar where the simulator is LONG changes nothing
\* (same position object, capital and ledger unchanged, flag stays 1), and a
\* sell signal at a bar where it is FLAT changes nothing (no trade, no
\* position, capital unchanged, flag stays 0); a buy while LONG never
\* replaces the open position by another one.
C2_IgnoredSignals ==
    [][BarStep =>
        /\ (WasLong /\ buy_signal') =>
               current_position' \in {current_position, None}
        /\ (WasLong /\ buy_signal' /\ ~sell_signal') =>
               /\ position'[i] = 1
               /\ capital'[i] = capital[i - 1]
               /\ current_position' = current_position
               /\ trades' = trades
        /\ (WasFlat /\ sell_signal' /\ ~buy_signal') =>
               /\ position'[i] = 0
               /\ capital'[i] = capital[i - 1]
               /\ coin_value'[i] = Zero
               /\ current_position' = None
               /\ trades' = trades]_vars

C2_Witness ==
    /\ pc = "loop"
    /\ i >= 3
    /\ position[i - 2] = 1
    /\ position[i - 1] = 1
    /\ buy_signal
    /\ ~sell_signal

\* C3: every trade of the ledger has pnl = exit_value * (1 - commission) -
\* investment and pnl_pct = pnl / investment, where investment is what the
\* entry row took from capital and exit_value is quantity times the close of
\* the exit row.
C3_TradePnl ==
    Running =>
        \A n \in 1 .. Len(trades) :
            LET t == trades[n]
                e == RowOf(t.entry_date)
                x == RowOf(t.exit_date)
            IN  /\ t.pnl = RSub(RMul(t.exit_value, RSub(One, commission)), t.investment)
                /\ t.pnl_pct = RDiv(t.pnl, t.investment)
                /\ t.investment = RSub(capital[e - 1], capital[e])
                /\ t.exit_value = RMul(t.quantity, Close(x))

C3_Witness ==
    /\ pc = "done"
    /\ Len(trades) = 1
    /\ commission # Zero
    /\ position_size # One
    /\ RLt(Zero, trades[1].pnl)
    /\ position[N - 1] = 1

\* C4: a position still open after the last bar is not closed: the ledger of
\* the result has no trade for it, capital is what the entry row left, and the
\* final equity is capital plus quantity times the last close.
C4_OpenPositionKept ==
    (pc = "done" /\ position[N - 1] = 1) =>
        /\ current_position # None
        /\ \A n \in 1 .. Len(result.trades) :
               result.trades[n].entry_date # current_position.entry_date
        /\ result.trades = trades
        /\ capital[N - 1] = capital[RowOf(current_position.entry_date)]
        /\ result.final_equity =
               RAdd(capital[N - 1], RMul(current_position.quantity, Close(N - 1)))

C4_Witness ==
    /\ pc = "done"
    /\ position[N - 1] = 1
    /\ RowOf(current_position.entry_date) < N - 1
    /\ Close(N - 1) # current_position.entry_price
    /\ commission # Zero

\* C7: a buy signal at row i while FLAT takes investment = capital *
\* position_size from capital (the whole investment, fee included), buys
\* quantity = (investment - fee) / close[i] with fee = investment *
\* commission, sets coin_value[i] = quantity * close[i] and the flag to 1, and
\* opens a position that records entry_price, quantity, investment, fee_paid.
C7_Entry ==
    [][(BarStep /\ WasFlat /\ buy_signal') =>
        LET investment == RMul(capital[i - 1], position_size)
            fee        == RMul(investment, commission)
            quantity   == RDiv(RSub(investment, fee), Close(i))
        IN  /\ capital'[i] = RSub(capital[i - 1], investment)
            /\ coin_value'[i] = RMul(quantity, Close(i))
            /\ position'[i] = 1
            /\ current_position' # None
            /\ current_position'.entry_price = Close(i)
            /\ current_position'.quantity = quantity
            /\ current_position'.investment = investment
            /\ current_position'.fee_paid = fee]_vars

C7_Witness ==
    /\ pc = "loop"
    /\ i >= 2
    /\ position[i - 2] = 0
    /\ position[i - 1] = 1
    /\ commission # Zero
    /\ position_size # One
    /\ Len(trades) >= 1

C9_NoTransition ==
    [][BarStep =>
        /\ equity'[i] = RAdd(capital'[i], coin_value'[i])
        /\ (WasLong /\ ~sell_signal') =>
               /\ coin_value'[i] = RMul(current_position.quantity, Close(i))
               /\ capital'[i] = capital[i - 1]
               /\ position'[i] = 1
               /\ current_position' = current_position
        /\ (WasFlat /\ ~buy_signal') =>
               /\ capital'[i] = capital[i - 1]
               /\ coin_value'[i] = Zero
               /\ coin_value[i - 1] = Zero
               /\ equity'[i] = equity[i - 1]
               /\ position'[i] = 0]_vars

C9_Witness ==
    /\ pc = "loop"
    /\ i >= 3
    /\ position[i - 2] = 1
    /\ position[i - 1] = 1
    /\ ~sell_signal
    /\ Close(i - 1) # Close(i - 2)
    /\ equity[i - 1] # equity[i - 2]

\* the signals of the same strategy on the data cut after row k
TruncatedBuySignal(d, k) ==
    LET p == Prefix(d, k)
    IN  UsedBuySignal(calculate_indicators(p), analyze_market(p), k)

TruncatedSellSignal(d, k, entry_price) ==
    LET p == Prefix(d, k)
    IN  UsedSellSignal(calculate_indicators(p), analyze_market(p), k, entry_price)

\* the entry price the exit rule was given at the row just processed
PriceAtLastRow ==
    IF position[i - 2] = 0 THEN NoFloat
    ELSE IF current_position # None THEN current_position.entry_price
    ELSE trades[Len(trades)].entry_price

C10_ZeroTrades ==
    (pc = "done" /\ result.num_trades = 0) =>
        /\ result.win_rate = Zero
        /\ result.profit_factor = Zero
        /\ result.avg_holding_period = Zero
        /\ RLe(Zero, result.max_drawdown)

\* row 0 of the frame is the FLAT start and every input bar has its row
RowZero ==
    Running =>
        /\ DOMAIN equity = Rows
        /\ DOMAIN position = Rows
        /\ DOMAIN capital = Rows
        /\ DOMAIN coin_value = Rows
        /\ position[0] = 0
        /\ capital[0] = initial_capital
        /\ equity[0] = initial_capital
        /\ coin_value[0] = Zero

RowsBut(k) == Rows \ {k}

\* the loop starts at row 1, goes from row i to row i + 1 writing nothing but
\* row i, and the run ends when row N - 1 is done
InOrder ==
    /\ (pc = "init" /\ pc' = "loop") => (i' = 1 /\ current_position' = None)
    /\ (pc = "loop" /\ pc' = "loop") =>
           /\ i < N
           /\ i' = i + 1
           /\ \A k \in RowsBut(i) :
                  /\ position'[k] = position[k]
                  /\ capital'[k] = capital[k]
                  /\ coin_value'[k] = coin_value[k]
                  /\ equity'[k] = equity[k]
    /\ (pc = "loop" /\ pc' = "done") => (i = N /\ frame' = frame)

ExitRows == {k \in 1 .. (i - 1) : position[k - 1] = 1 /\ position[k] = 0}

\* C20: with commission 0 and position_size 1, a round trip that enters from
\* FLAT with capital C at close p_e and exits at close p_x leaves capital
\* C * p_x / p_e and coin_value 0, and adds exactly one trade, whose fee_paid,
\* exit_fee and total_fee are 0.
C20_FreeRoundTrip ==
    (Running /\ commission = Zero /\ position_size = One) =>
        /\ Len(trades) = Cardinality(ExitRows)
        /\ \A n \in 1 .. Len(trades) :
               LET t == trades[n]
                   e == RowOf(t.entry_date)
                   x == RowOf(t.exit_date)
               IN  /\ position[e - 1] = 0
                   /\ x \in ExitRows
                   /\ \A m \in 1 .. Len(trades) : trades[m].exit_date = t.exit_date => m = n
                   /\ capital[x] = RDiv(RMul(capital[e - 1], Close(x)), Close(e))
                   /\ coin_value[x] = Zero
                   /\ t.fee_paid = Zero
                   /\ t.exit_fee = Zero
                   /\ t.total_fee = Zero

C20_Witness ==
    /\ pc = "done"
    /\ commission = Zero
    /\ position_size = One
    /\ Len(trades) >= 1
    /\ trades[1].exit_price # trades[1].entry_price
    /\ capital[N - 1] # initial_capital

(***************************************************************************)
(* Properties of the analytics.                                            *)
(***************************************************************************)
AllWinners(ts) == \A n \in 1 .. Len(ts) : RLt(Zero, ts[n].pnl)

\* C11: when the ledger is not empty and every trade has pnl > 0, the
\* profit_factor of the result is +infinity (a value of the result, the
\* other metrics being computed as usual).
C11_AllWinnersInfinite ==
    (pc = "done" /\ Len(result.trades) > 0 /\ AllWinners(result.trades)) =>
        /\ result.profit_factor = Inf
        /\ result.avg_loss = Zero
        /\ result.win_rate = One
        /\ RLt(Zero, result.avg_win)

C11_Witness ==
    /\ pc = "done"
    /\ Len(result.trades) > 0
    /\ AllWinners(result.trades)
    /\ commission # Zero

SegmentKeys ==
    {"trending_win_rate", "trending_avg_return", "ranging_win_rate", "ranging_avg_return"}

\* the trades of the ledger entered in the given regime
Segment(state) == SelectSeq(result.trades, LAMBDA t : t.market_state = state)

WinRate(ts) ==
    IF ts = <<>> THEN Zero
    ELSE Rat(Cardinality({n \in 1 .. Len(ts) : RLt(Zero, ts[n].pnl)}), Len(ts))

AvgReturn(ts) ==
    IF ts = <<>> THEN Zero
    ELSE RDiv(RSum([n \in 1 .. Len(ts) |-> ts[n].pnl_pct]), Int2R(Len(ts)))

\* C19: for every ledger, the empty one included, the mapping returned by
\* trade_statistics has the entries trending_win_rate, trending_avg_return,
\* ranging_win_rate and ranging_avg_return, each computed over the trades
\* entered in that regime and 0 when there is none.
C19_SegmentedStatistics ==
    (pc = "done" /\ stats # None) =>
        /\ SegmentKeys \subseteq DOMAIN stats
        /\ stats.trending_win_rate = WinRate(Segment("trending"))
        /\ stats.trending_avg_return = AvgReturn(Segment("trending"))
        /\ stats.ranging_win_rate = WinRate(Segment("ranging"))
        /\ stats.ranging_avg_return = AvgReturn(Segment("ranging"))

(***************************************************************************)
(* Properties of the input handling.                                       *)
(***************************************************************************)
WellFormed(bars, idx) ==
    /\ bars # <<>>
    /\ \A k \in DOMAIN bars : OHLC \subseteq DOMAIN bars[k]
    /\ \A k \in DOMAIN bars : k >= 1 => idx[k - 1] < idx[k]

\* C12: on a frame that is empty, lacks an OHLC column or whose index is not
\* strictly increasing, no bar is processed, no result (no equity series) is
\* returned and no trade is recorded.
C12_RejectsMalformed ==
    ~WellFormed(data, index) =>
        /\ i <= 1
        /\ pc # "done"
        /\ trades = <<>>

(***************************************************************************)
(* Properties of the strategy.                                             *)
(***************************************************************************)
\* x >= y and x <= y on defined values, by cross multiplication
AtLeast(x, y) == IsNum(x) /\ IsNum(y) /\ x[1] * y[2] >= y[1] * x[2]

AtMost(x, y) == AtLeast(y, x)

Undefined(col, rows) == \E k \in rows : ~IsNum(indicators[col][k])

\* every alternative of the entry rule that applies at row k reads an
\* undefined value
EntryUndefined(k) ==
    IF trending[k]
    THEN /\ Undefined("ma_short", {k - 1, k}) \/ Undefined("ma_long", {k - 1, k})
         /\ Undefined("plus_di", {k - 1, k}) \/ Undefined("minus_di", {k - 1, k})
    ELSE /\ Undefined("bb_middle", {k}) \/ Undefined("bb_dist2", {k})
         /\ Undefined("rsi", {k})

EntryPrices == {NoFloat, Zero, Int2R(2), Int2R(3), Int2R(4), Rat(10, 7), Rat(20, 7)}

\* (close[k] - entry_price) / entry_price
ReturnAt(k, entry_price) == RDiv(RSub(Close(k), entry_price), entry_price)

ProfitOrLossLimit(k, entry_price) ==
    /\ entry_price \notin {NoFloat, Zero}
    /\ \/ AtLeast(ReturnAt(k, entry_price), take_profit)
       \/ AtMost(ReturnAt(k, entry_price), RNeg(stop_loss))

RegimeChanged(k) == k >= 1 /\ trending[k] # trending[k - 1]

\* C15: for every row k >= 1 the exit signal is true when the regime changed
\* (trending[k] # trending[k-1]; detect_market_state_change with lookback 1
\* flags exactly those rows and never row 0), and, whatever the regime and the
\* other exit rules say, when an entry price is given and the return of
\* close[k] on it is >= take_profit or <= -stop_loss; the sell signal the
\* simulator is given at a row obeys both.
C15_ForcedExit ==
    /\ (pc = "loop" /\ i = 1) =>
           \A k \in Rows :
               /\ detect_market_state_change(trending, 1)[k] = RegimeChanged(k)
               /\ k >= 1 =>
                      \A price \in EntryPrices :
                          (RegimeChanged(k) \/ ProfitOrLossLimit(k, price)) =>
                              exit_signals(indicators, trending, price)[k]
    /\ (/\ Running
        /\ i >= 2
        /\ RegimeChanged(i - 1) \/ ProfitOrLossLimit(i - 1, PriceAtLastRow)) =>
           sell_signal

\* the exit rule alone is silent at row k, and the return on the entry price
\* is exactly the limit
LimitOnly(k, price, limit) ==
    /\ ~exit_signals(indicators, trending, NoFloat)[k]
    /\ price \notin {NoFloat, Zero}
    /\ ReturnAt(k, price) = limit
    /\ exit_signals(indicators, trending, price)[k]

C15_Witness ==
    /\ pc = "loop"
    /\ i = 1
    /\ \E k \in Rows \ {0} : \E price \in EntryPrices : LimitOnly(k, price, take_profit)
    /\ \E k \in Rows \ {0} : \E price \in EntryPrices : LimitOnly(k, price, RNeg(stop_loss))
    /\ \E k \in Rows : RegimeChanged(k)

\* column a is above column b at row k and was not at row k-1
CrossesAbove(a, b, k) ==
    /\ k >= 1
    /\ AtLeast(indicators[a][k], indicators[b][k])
    /\ indicators[a][k] # indicators[b][k]
    /\ AtMost(indicators[a][k - 1], indicators[b][k - 1])

\* close[k] - bb_middle[k] is defined and its square reaches bb_dist2[k]
BandReached(k) ==
    LET gap == RSub(Close(k), indicators.bb_middle[k])
    IN  AtLeast(RMul(gap, gap), indicators.bb_dist2[k])

TrendingBuyRule(k) ==
    CrossesAbove("ma_short", "ma_long", k) \/ CrossesAbove("plus_di", "minus_di", k)

TrendingSellRule(k) ==
    CrossesAbove("ma_long", "ma_short", k) \/ CrossesAbove("minus_di", "plus_di", k)

RangingBuyRule(k) ==
    \/ AtMost(Close(k), indicators.bb_middle[k]) /\ BandReached(k)
    \/ AtMost(indicators.rsi[k], Int2R(rsi_oversold)) /\ indicators.rsi[k] # Int2R(rsi_oversold)

RangingSellRule(k) ==
    \/ AtLeast(Close(k), indicators.bb_middle[k]) /\ BandReached(k)
    \/ AtLeast(indicators.rsi[k], Int2R(rsi_overbought))
           /\ indicators.rsi[k] # Int2R(rsi_overbought)

\* C16: at a ranging row the buy signal is true iff close <= lower band or
\* RSI < rsi_oversold, and the sell rule is close >= upper band or RSI >
\* rsi_overbought; at a trending row the buy signal is true iff the short MA
\* or +DI crosses above the long MA resp. -DI between rows k-1 and k, and the
\* sell rule is the opposite cross; the rules of the other regime have no
\* effect at the row.  (The sell rule is the exit signal without entry price
\* at a row whose regime did not change.)
C16_RuleSelection ==
    (pc = "loop" /\ i = 1) =>
        \A k \in Rows :
            /\ entry_signals(indicators, trending)[k] =
                   IF trending[k] THEN TrendingBuyRule(k) ELSE RangingBuyRule(k)
            /\ ~RegimeChanged(k) =>
                   exit_signals(indicators, trending, NoFloat)[k] =
                       IF trending[k] THEN TrendingSellRule(k) ELSE RangingSellRule(k)

C16_Witness ==
    /\ pc = "loop"
    /\ i = 1
    /\ \E k \in Rows : trending[k] /\ RangingBuyRule(k) /\ ~TrendingBuyRule(k)
    /\ \E k \in Rows : ~trending[k] /\ TrendingBuyRule(k) /\ ~RangingBuyRule(k)

WarmUp(s, p) == \A k \in DOMAIN s : (s[k] = NaN) = (k < p - 1)

\* C17: every series of the indicator frame computed with lookback period p
\* has exactly its first p-1 values undefined (NaN); the value at index p-1
\* is the first defined one.
C17_WarmUpPrefix ==
    pc = "frame" =>
        \A c \in DOMAIN indicators : WarmUp(indicators[c], args.period)

(***************************************************************************)
(* CandleService (service/candle_service.py) over CandleDB                 *)
(* (service/candle_db.py) and UpbitAPI (service/upbit_api.py).  Time is    *)
(* counted in seconds; the exchange has one candle every CandleSpan        *)
(* seconds.  A candle is known by its candle time candle_date_time_utc     *)
(* and by timestamp, the time in milliseconds at which its last tick was   *)
(* stored (models/candle.py line 15), which lies inside the candle.  The   *)
(* 'to' argument is <<>> for None and otherwise <<t, fmt>>: the time t     *)
(* written in the format fmt, one of "Z" (yyyy-MM-ddTHH:mm:ssZ), "T" (the  *)
(* same without the Z) and " " (yyyy-MM-dd HH:mm:ss).  An optional         *)
(* timestamp is <<>> for None and <<t>> for t.  Prices and volumes are     *)
(* left out: no path of get_minute_candles reads them.                     *)
(***************************************************************************)
MAX_API_COUNT == 2

CandleSpan == 2

MaxHistory == 4

MaxCount == 4

Markets == {"KRW-BTC"}

Units == {15}

Formats == {"Z", "T", " "}

NoTime == <<>>

\* the difference in seconds between the local time of the host and UTC
HostUtcOffset == 0

Min(a, b) == IF a <= b THEN a ELSE b

Candle(market, unit, time, ms) ==
    [market |-> market, unit |-> unit, candle_date_time_utc |-> time, timestamp |-> ms]

\* the histories the exchange may hold: candle k opens at k * CandleSpan and
\* the last tick of every candle is stored tick seconds later, inside its span
Histories ==
    {[k \in 1 .. MaxHistory |->
          Candle("KRW-BTC", 15, k * CandleSpan, (k * CandleSpan + tick) * 1000)] :
       tick \in 0 .. (CandleSpan - 1)}

\* the candles of a list in reverse order
Reversed(cs) == [k \in 1 .. Len(cs) |-> cs[Len(cs) + 1 - k]]

\* the last n elements of a list
Latest(cs, n) == SubSeq(cs, Len(cs) - n + 1, Len(cs))

\* the exchange's candles of (market, unit) that open before the exclusive
\* bound 'to' (every candle when no bound is sent, upbit_api.py lines 133-134)
Before(market, unit, to) ==
    SelectSeq(exchange, LAMBDA c : /\ c.market = market
                                   /\ c.unit = unit
                                   /\ (to # NoTime => c.candle_date_time_utc < to[1]))

\* UpbitAPI.get_minute_candles: the answers the exchange may give to a
\* request of count candles before 'to': the most recent ones, newest first,
\* up to count of them and possibly fewer or none
Responses(market, unit, count, to) ==
    LET avail == Before(market, unit, to)
    IN  {Reversed(Latest(avail, n)) : n \in 0 .. Min(count, Len(avail))}

\* an answer that holds every candle asked for that the exchange has
InFull(market, unit, count, to) ==
    LET avail == Before(market, unit, to)
    IN  Reversed(Latest(avail, Min(count, Len(avail))))

\* the place of element j of a list in the list sorted by timestamp: after
\* the elements with a smaller timestamp and the earlier ones with the same
PlaceOf(cs, j) ==
    1 + Cardinality({m \in DOMAIN cs : \/ cs[m].timestamp < cs[j].timestamp
                                       \/ cs[m].timestamp = cs[j].timestamp /\ m < j})

\* sorted(candles.root, key=lambda x: x.timestamp), a stable sort
SortedByTimestamp(cs) ==
    [k \in DOMAIN cs |-> cs[CHOOSE j \in DOMAIN cs : PlaceOf(cs, j) = k]]

ensure_ascending_order(candles) == SortedByTimestamp(candles)

\* the row save_minute_candles writes for a candle (candle_db.py lines 66-75)
Row(candle, market, unit) ==
    [market |-> market, timeframe |-> unit, timestamp |-> candle.timestamp \div 1000]

\* CandleDB.save_minute_candles: INSERT OR IGNORE under
\* UNIQUE(market, timeframe, timestamp)
save_minute_candles(table, candles, market, unit) ==
    table \cup {Row(candles[k], market, unit) : k \in DOMAIN candles}

\* ORDER BY timestamp ASC; the rows of one market and timeframe differ in
\* their timestamps (UNIQUE(market, timeframe, timestamp))
OrderByTimestamp(rows) ==
    [k \in 1 .. Cardinality(rows) |->
        CHOOSE r \in rows : Cardinality({q \in rows : q.timestamp < r.timestamp}) = k - 1]

\* the first n elements of a list, cs[:n]
FirstN(cs, n) == SubSeq(cs, 1, Min(n, Len(cs)))

\* CandleDB.get_minute_candles(market, unit, end_time=end_time, limit=limit)
db_get_minute_candles(table, market, unit, end_time, limit) ==
    LET rows == {r \in table : /\ r.market = market
                               /\ r.timeframe = unit
                               /\ (end_time # NoTime => r.timestamp <= end_time[1])}
    IN  FirstN(OrderByTimestamp(rows), limit)

\* CandleService._convert_db_to_model
convert_db_to_model(db_data, unit) ==
    [k \in DOMAIN db_data |->
        Candle(db_data[k].market, unit, db_data[k].timestamp, db_data[k].timestamp * 1000)]

\* line 93: a string with a 'T' and without a final 'Z' is parsed with %z,
\* which a string without a UTC offset does not match (ValueError)
Unparsable(to) == to # NoTime /\ to[2] = "T"

\* lines 89-98: the bound of the request as a timestamp in seconds;
\* strptime gives a naive datetime and timestamp() reads it as local time
EndTime(to) == IF to = NoTime THEN NoTime ELSE <<to[1] - HostUtcOffset>>

\* candle_date_time_utc of a candle as the next 'to' (lines 74 and 141) and
\* strftime("%Y-%m-%dT%H:%M:%S") of a cached timestamp (line 115)
IsoTime(t) == <<t, "T">>

\* CandleService.clear_cache over CandleDB.clear_cache: a falsy market ("")
\* or unit (0) deletes for every market or every timeframe
clear_cache(table, market, unit) ==
    {r \in table : ~ /\ (market # "" => r.market = market)
                     /\ (unit # 0 => r.timeframe = unit)}

(***************************************************************************)
(* The calls of the service.  call is the activation record of the latest  *)
(* get_minute_candles: its arguments, its locals and where it stands       *)
(* ("split": the loop of lines 53-81, "extend": the loop of lines 122-150, *)
(* "collected": after that loop, "returned", "error").  log lists, in      *)
(* order, the API requests and the pauses of that call.                    *)
(***************************************************************************)
Bounds == {NoTime} \cup {<<t, fmt>> : t \in {CandleSpan * (MaxHistory - 1),
                                             CandleSpan * MaxHistory}, fmt \in Formats}

Requests == [market : Markets, unit : Units, count : 1 .. MaxCount,
             to : Bounds, use_cache : BOOLEAN]

backtest == <<config, frame, trades, current_position, i, pc, buy_signal, sell_signal,
              result, runs, first, stats>>

\* no call of get_minute_candles has been made yet
NoCall == [pc |-> "idle"]

\* CandleService.__init__ on an empty database, in front of an exchange
InitCandles ==
    /\ Constructed([k \in 0 .. 0 |-> FlatBar(2)])
    /\ position_size = One
    /\ commission = Zero
    /\ args = None
    /\ exchange \in Histories
    /\ db = {}
    /\ call = NoCall
    /\ log = <<>>
    /\ returned = None

Idle == call.pc \in {"idle", "returned", "error"}

\* an entry of log: a request sent to the API and the candles it answered
ApiCall(count, to, received) ==
    [op |-> "api", count |-> count, to |-> to, received |-> received]

\* an entry of log: time.sleep(1)
Sleep == [op |-> "sleep", seconds |-> 1]

Activation(rq, at, cached_data, remaining, current_to) ==
    [market |-> rq.market, unit |-> rq.unit, count |-> rq.count, to |-> rq.to,
     use_cache |-> rq.use_cache, pc |-> at, cached_data |-> cached_data,
     remaining |-> remaining, current_to |-> current_to, all_candles |-> <<>>]

\* line 101
CachedData(rq) ==
    db_get_minute_candles(db, rq.market, rq.unit, EndTime(rq.to), rq.count)

\* the cache is not asked (use_cache=False) or holds nothing (line 162)
ToApi(rq) == ~rq.use_cache \/ (~Unparsable(rq.to) /\ CachedData(rq) = <<>>)

\* lines 89-98 raise ValueError
RaiseValueError ==
    /\ Idle
    /\ \E rq \in Requests :
          /\ rq.use_cache
          /\ Unparsable(rq.to)
          /\ call' = Activation(rq, "error", <<>>, rq.count, rq.to)
    /\ log' = <<>>
    /\ returned' = None
    /\ UNCHANGED <<db, exchange, backtest>>

\* lines 100-106: the cache holds count candles
ServeFromCache ==
    /\ Idle
    /\ \E rq \in Requests :
          /\ rq.use_cache
          /\ ~Unparsable(rq.to)
          /\ LET cached_data == CachedData(rq)
             IN  /\ cached_data # <<>>
                 /\ Len(cached_data) >= rq.count
                 /\ call' = Activation(rq, "returned", cached_data, 0, rq.to)
                 /\ returned' = convert_db_to_model(FirstN(cached_data, rq.count), rq.unit)
    /\ log' = <<>>
    /\ UNCHANGED <<db, exchange, backtest>>

\* lines 40-45: one API call, reached with use_cache=False or through line
\* 162 from an empty cache
FetchOnce ==
    /\ Idle
    /\ \E rq \in Requests :
          /\ ToApi(rq)
          /\ rq.count <= MAX_API_COUNT
          /\ \E candles \in Responses(rq.market, rq.unit, rq.count, rq.to) :
                LET candles_sorted == ensure_ascending_order(candles)
                IN  /\ db' = save_minute_candles(db, candles_sorted, rq.market, rq.unit)
                    /\ returned' = candles_sorted
                    /\ log' = <<ApiCall(rq.count, rq.to, candles)>>
          /\ call' = Activation(rq, "returned", <<>>, rq.count, rq.to)
    /\ UNCHANGED <<exchange, backtest>>

\* lines 48-51: more than MAX_API_COUNT candles from the API
StartSplit ==
    /\ Idle
    /\ \E rq \in Requests :
          /\ ToApi(rq)
          /\ rq.count > MAX_API_COUNT
          /\ call' = Activation(rq, "split", <<>>, rq.count, rq.to)
    /\ log' = <<>>
    /\ returned' = None
    /\ UNCHANGED <<db, exchange, backtest>>

\* lines 109-120: the cache holds some candles, fewer than count
StartExtend ==
    /\ Idle
    /\ \E rq \in Requests :
          /\ rq.use_cache
          /\ ~Unparsable(rq.to)
          /\ LET cached_data == CachedData(rq)
             IN  /\ cached_data # <<>>
                 /\ Len(cached_data) < rq.count
                 /\ call' = Activation(rq, "extend", cached_data,
                                       rq.count - Len(cached_data),
                                       IsoTime(cached_data[1].timestamp))
    /\ log' = <<>>
    /\ returned' = None
    /\ UNCHANGED <<db, exchange, backtest>>

Unreduced(remaining, received) == remaining

\* lines 77 and 144: remaining -= len(batch_sorted.root)
Remaining(remaining, received) == remaining - received

\* lines 80-81 and 147-148: time.sleep(1) when more is to be fetched
Pause(remaining) == IF remaining > 0 THEN <<Sleep>> ELSE <<>>

\* one iteration of the loop of lines 53-81 or of lines 122-150
FetchBatch ==
    /\ call.pc \in {"split", "extend"}
    /\ call.remaining > 0
    /\ LET batch_count == Min(call.remaining, MAX_API_COUNT)
       IN  \E batch_candles \in Responses(call.market, call.unit, batch_count, call.current_to) :
              LET batch_sorted == ensure_ascending_order(batch_candles)
                  remaining == Remaining(call.remaining, Len(batch_sorted))
                  request == <<ApiCall(batch_count, call.current_to, batch_candles)>>
              IN  IF batch_candles = <<>>
                  THEN /\ call' = [call EXCEPT !.pc = "collected"]
                       /\ log' = log \o request
                  ELSE /\ call' = [call EXCEPT
                                      !.all_candles = batch_sorted \o call.all_candles,
                                      !.current_to = IsoTime(batch_sorted[1].candle_date_time_utc),
                                      !.remaining = remaining,
                                      !.pc = IF remaining > 0 THEN call.pc ELSE "collected"]
                       /\ log' = log \o request \o Pause(remaining)
    /\ UNCHANGED <<db, exchange, returned, backtest>>

\* lines 83-86
ReturnSplit ==
    /\ call.pc = "collected"
    /\ call.cached_data = <<>>
    /\ LET all_candles_sorted == ensure_ascending_order(call.all_candles)
       IN  /\ db' = save_minute_candles(db, all_candles_sorted, call.market, call.unit)
           /\ returned' = all_candles_sorted
    /\ call' = [call EXCEPT !.pc = "returned"]
    /\ UNCHANGED <<exchange, log, backtest>>

\* lines 152-159
ReturnExtend ==
    /\ call.pc = "collected"
    /\ call.cached_data # <<>>
    /\ LET saved == save_minute_candles(db, call.all_candles, call.market, call.unit)
           all_cached_data == db_get_minute_candles(saved, call.market, call.unit,
                                                    EndTime(call.to), call.count)
       IN  /\ db' = saved
           /\ returned' = convert_db_to_model(FirstN(all_cached_data, call.count), call.unit)
    /\ call' = [call EXCEPT !.pc = "returned"]
    /\ UNCHANGED <<exchange, log, backtest>>

\* the request of the call under way
Request(c) ==
    [market |-> c.market, unit |-> c.unit, count |-> c.count, to |-> c.to,
     use_cache |-> c.use_cache]

\* response.raise_for_status() raises in UpbitAPI.get_minute_candles and
\* nothing catches it: the call ends at line 41, 59 or 126, its locals are
\* lost and nothing is saved
RaiseHTTPError ==
    /\ \/ /\ Idle
          /\ \E rq \in Requests :
                /\ ToApi(rq)
                /\ rq.count <= MAX_API_COUNT
                /\ call' = Activation(rq, "error", <<>>, rq.count, rq.to)
          /\ log' = <<>>
       \/ /\ call.pc \in {"split", "extend"}
          /\ call.remaining > 0
          /\ call' = Activation(Request(call), "error", <<>>, call.count, call.to)
          /\ log' = log
    /\ returned' = None
    /\ UNCHANGED <<db, exchange, backtest>>

\* CandleService.clear_cache(market, unit)
ClearCache ==
    /\ Idle
    /\ \E market \in Markets \cup {""}, unit \in Units \cup {0} :
          db' = clear_cache(db, market, unit)
    /\ UNCHANGED <<exchange, call, log, returned, backtest>>

NextCandles ==
    \/ RaiseValueError
    \/ ServeFromCache
    \/ FetchOnce
    \/ StartSplit
    \/ StartExtend
    \/ FetchBatch
    \/ ReturnSplit
    \/ ReturnExtend
    \/ RaiseHTTPError
    \/ ClearCache

SpecCandles == InitCandles /\ [][NextCandles]_vars

\* a call that has begun runs on: the loop takes its next iteration and the
\* statements after the loop follow it
Proceed == FetchBatch \/ ReturnSplit \/ ReturnExtend

FairSpecCandles == SpecCandles /\ WF_vars(Proceed)

(***************************************************************************)
(* Properties of the candle service.                                       *)
(***************************************************************************)
Returned == call.pc = "returned"

\* the candle times of the returned list, in its order
ReturnedTimes == [k \in DOMAIN returned |-> returned[k].candle_date_time_utc]

Ascending(ts) == \A k \in 1 .. (Len(ts) - 1) : ts[k] < ts[k + 1]

\* the call was answered from the database (lines 106 and 159)
FromCache == call.use_cache /\ call.cached_data # <<>>

\* C21: when get_minute_candles was called with a bound to=T and has
\* returned, on the cache path and on the API path alike, every returned
\* candle has a candle time strictly before T and the list is in ascending
\* order of time.
C21_ExclusiveBound ==
    (Returned /\ call.to # NoTime) =>
        /\ \A k \in DOMAIN returned : ReturnedTimes[k] < call.to[1]
        /\ Ascending(ReturnedTimes)

\* the API requests of the latest call, in order
ApiCalls == SelectSeq(log, LAMBDA e : e.op = "api")

\* the number of candles the requests of a list ask for, together
RECURSIVE Requested(_)
Requested(calls) ==
    IF calls = <<>> THEN 0 ELSE Head(calls).count + Requested(Tail(calls))

\* the candle time of the oldest candle of a batch
OldestTime(batch) ==
    CHOOSE t \in {batch[k].candle_date_time_utc : k \in DOMAIN batch} :
        \A k \in DOMAIN batch : t <= batch[k].candle_date_time_utc

\* every request after the first is bound by the oldest candle of the batch
\* before it
Chained ==
    \A k \in 1 .. (Len(ApiCalls) - 1) :
        /\ ApiCalls[k].received # <<>>
        /\ ApiCalls[k + 1].to = IsoTime(OldestTime(ApiCalls[k].received))

\* one pause between two API calls that follow each other, none elsewhere
Paused ==
    \A k \in DOMAIN log :
        /\ (log[k].op = "api" /\ k < Len(log)) => log[k + 1].op = "sleep"
        /\ log[k].op = "sleep" => (k < Len(log) /\ log[k + 1].op = "api")

\* the API answered every request of the call with as many candles as asked
SuppliedInFull == \A k \in DOMAIN ApiCalls : Len(ApiCalls[k].received) = ApiCalls[k].count

\* C22: when a call for more than MAX_API_COUNT candles has returned, each
\* of its API requests asked for at most MAX_API_COUNT candles and all of
\* them together for at most count; each later request was bound by the
\* oldest candle time of the batch before it; there is one pause between
\* two consecutive requests and none after the last; and when every request
\* was answered in full the result holds exactly count candles.
C22_SplitFetch ==
    (Returned /\ call.count > MAX_API_COUNT) =>
        /\ \A k \in DOMAIN ApiCalls : ApiCalls[k].count <= MAX_API_COUNT
        /\ Requested(ApiCalls) <= call.count
        /\ Chained
        /\ Paused
        /\ SuppliedInFull => Len(returned) = call.count

\* the rows the database held for the request within its bound when the call
\* looked (line 101), at most count of them
Cached == Len(call.cached_data)

\* the candle is older than every row the call found in the cache
OlderThanCached(candle) ==
    \A k \in DOMAIN call.cached_data :
        Row(candle, call.market, call.unit).timestamp < call.cached_data[k].timestamp

\* C23: when a call with use_cache=True has returned: if the cache held at
\* least count candles within the bound, no API request was made; if it
\* held none, the API was asked; if it held some but fewer than count, the
\* API was asked, every candle it answered is older than the oldest cached
\* one, and when every request was answered in full the requests together
\* asked for count - cached candles and the result holds exactly count.
C23_CacheFirst ==
    (Returned /\ call.use_cache) =>
        /\ Cached >= call.count => ApiCalls = <<>>
        /\ Cached = 0 => ApiCalls # <<>>
        /\ (0 < Cached /\ Cached < call.count) =>
              /\ ApiCalls # <<>>
              /\ \A k \in DOMAIN ApiCalls : \A j \in DOMAIN ApiCalls[k].received :
                     OlderThanCached(ApiCalls[k].received[j])
              /\ SuppliedInFull =>
                     /\ Requested(ApiCalls) = call.count - Cached
                     /\ Len(returned) = call.count

NoWinner(ts) == \A n \in 1 .. Len(ts) : ~RLt(Zero, ts[n].pnl)

\* C24: the profit_factor of a result is +infinity only when its ledger
\* holds a trade with pnl > 0; for a ledger that is not empty and holds no
\* such trade (every pnl <= 0, a pnl of exactly 0 included) it is a finite
\* number.
C24_InfiniteOnlyWithWinners ==
    pc = "done" =>
        /\ result.profit_factor = Inf => ~NoWinner(result.trades)
        /\ (Len(result.trades) > 0 /\ NoWinner(result.trades)) =>
               IsNum(result.profit_factor)

(***************************************************************************)
(* The simulator on frames long enough for two round trips.                *)
(***************************************************************************)
LedgerBars == 5

LedgerData == [0 .. (LedgerBars - 1) -> {FlatBar(c) : c \in Closes}]

InitLedger ==
    /\ NoService
    /\ \E bars \in LedgerData : Constructed(bars)
    /\ position_size = Rat(1, 2)
    /\ commission = Zero
    /\ args = None

SpecLedger == InitLedger /\ [][Next]_vars

\* the first list is the beginning of the second
IsPrefix(ts, us) == Len(ts) <= Len(us) /\ SubSeq(us, 1, Len(ts)) = ts

Chronological(ts) ==
    /\ \A n \in 1 .. Len(ts) : ts[n].entry_date < ts[n].exit_date
    /\ \A n \in 1 .. (Len(ts) - 1) : ts[n].exit_date < ts[n + 1].entry_date

\* C25: during a run the ledger only grows at its end (a trade, once
\* appended, is neither changed nor removed) and the result carries it as it
\* is; every trade has its entry bar strictly before its exit bar, and the
\* exit bar of a trade is strictly before the entry bar of the next one.
C25_AppendOnlyLedger ==
    /\ [](Running => Chronological(trades))
    /\ [](pc = "done" => result.trades = trades)
    /\ [][pc = "loop" => IsPrefix(trades, trades')]_vars

C25_Witness ==
    /\ pc = "done"
    /\ Len(trades) = 2
    /\ RowOf(trades[2].entry_date) = RowOf(trades[1].exit_date) + 1

\* the rows processed so far at which the flag went from 0 to 1
EntryRows == {k \in 1 .. (i - 1) : position[k - 1] = 0 /\ position[k] = 1}

\* C26: at the end of every bar (row i - 1 is the last one processed) the
\* flag of that row is 1 exactly when a position object is open; every row
\* with flag 0 has coin_value 0; the ledger has as many trades as the flag
\* has changes from 1 to 0, and the flag has one more change from 0 to 1
\* than that while LONG and as many while FLAT.
C26_FlagPositionLedger ==
    Running =>
        /\ position[i - 1] = 1 <=> current_position # None
        /\ \A k \in 0 .. (i - 1) : position[k] = 0 => coin_value[k] = Zero
        /\ Len(trades) = Cardinality(ExitRows)
        /\ Cardinality(EntryRows) = Len(trades) + position[i - 1]

C26_Witness ==
    /\ pc = "loop"
    /\ Len(trades) = 1
    /\ position[i - 1] = 1
    /\ Cardinality(EntryRows) = 2
    /\ coin_value[i - 1] # Zero

(***************************************************************************)
(* The simulator with position_size and commission anywhere in [0, 1],     *)
(* the ends included.                                                      *)
(***************************************************************************)
SizingBars == 3

SizingData == [0 .. (SizingBars - 1) -> {FlatBar(c) : c \in Closes}]

AnySizes == {Zero, Rat(1, 2), One}

AnyCommissions == {Zero, Rat(1, 10), One}

InitSizing ==
    /\ NoService
    /\ \E bars \in SizingData :
          ConstructedFrom(bars, RegularIndex(bars), AnySizes, AnyCommissions)
    /\ args = None

\* lines 109-135 at row i with a sell signal for a position whose investment
\* is 0: the row is written up to line 131 and line 135 raises
\* ZeroDivisionError; line 152 is not reached
RaiseZeroDivisionError ==
    /\ pc = "loop"
    /\ i < N
    /\ "close" \in DOMAIN data[i]
    /\ DividesByZero(i, TRUE)
    /\ LET sell_value == MarkToMarket(current_position, Close(i))
           fee        == Fee(sell_value)
       IN  /\ position' = [position EXCEPT ![i] = 0]
           /\ capital' = [capital EXCEPT
                             ![i] = CapitalAfterSell(capital[i - 1],
                                                     ActualSellValue(sell_value, fee))]
           /\ coin_value' = [coin_value EXCEPT ![i] = Zero]
    /\ sell_signal' = TRUE
    /\ pc' = "error"
    /\ UNCHANGED <<service, config, indicators, trending, equity, trades, current_position,
                   i, buy_signal, result, runs, first, stats>>

NextSizing == Start \/ Bar \/ Finish \/ RaiseZeroDivisionError

SpecSizing == InitSizing /\ [][NextSizing]_vars

\* row i is reached FLAT with a buy signal, or LONG with a sell signal
EntryBar == pc = "loop" /\ i < N /\ WasFlat /\ buy_signal'

ExitBar == pc = "loop" /\ i < N /\ WasLong /\ sell_signal'

\* the iteration at row i ran to its end
BarDone == pc' = "loop" /\ i' = i + 1

\* C27: a transition changes equity only by the fee charged.  An entry bar
\* ends with equity[i] = equity[i-1] - fee, fee = capital[i-1] *
\* position_size * commission, for every position_size in [0, 1]; an exit
\* bar ends with equity[i] = capital[i-1] + quantity * close[i] - fee, fee =
\* quantity * close[i] * commission; and capital and coin_value are never
\* negative.
C27_FeeOnly ==
    /\ [][EntryBar =>
            /\ BarDone
            /\ equity'[i] = RSub(equity[i - 1],
                                 RMul(RMul(capital[i - 1], position_size), commission))]_vars
    /\ [][ExitBar =>
            /\ BarDone
            /\ LET sell_value == RMul(current_position.quantity, Close(i))
               IN  equity'[i] = RSub(RAdd(capital[i - 1], sell_value),
                                     RMul(sell_value, commission))]_vars
    /\ [](\A k \in DOMAIN capital : RLe(Zero, capital[k]) /\ RLe(Zero, coin_value[k]))

\* two frames of series have the same values at row k
SameAt(full, cut, k) == \A col \in DOMAIN full : full[col][k] = cut[col][k]

\* C29: every series an indicator function returns is causal: its value at
\* row k is the value the same function gives on the data cut after row k,
\* so no bar after k has a part in it (the series of ichimoku, chikou
\* included, the series of the indicator frame, and the ADX and choppiness
\* series and the labels of is_trending_market).
C29_Causal ==
    /\ pc = "ichimoku" =>
           \A k \in Rows : SameAt(indicators, IchimokuFrame(Prefix(data, k), args.period), k)
    /\ pc = "frame" =>
           \A k \in Rows : SameAt(indicators, IndicatorFrame(Prefix(data, k), args.period), k)
    /\ pc = "regime" =>
           \A k \in Rows :
               LET r == is_trending_market(Prefix(data, k), args.adx_threshold,
                                           args.chop_threshold, AdxPeriod, ChopPeriod)
               IN  /\ trending[k] = r.trending[k]
                   /\ indicators.adx[k] = r.adx_values[k]
                   /\ indicators.chop[k] = r.chop[k]

\* the candle times the request of the latest call gets with use_cache=False
\* from an API that answers in full: those of the count most recent candles
\* before 'to', oldest first
UncachedTimes ==
    LET candles == Reversed(InFull(call.market, call.unit, call.count, call.to))
    IN  [k \in DOMAIN candles |-> candles[k].candle_date_time_utc]

\* C30: the cache is transparent: whatever earlier calls have written to the
\* database, a call with use_cache=True (every API request it made being
\* answered in full) returns the candles the same call with use_cache=False
\* returns, the count most recent ones up to the bound, with the same candle
\* times in the same ascending order.
C30_CacheTransparent ==
    (Returned /\ call.use_cache /\ SuppliedInFull) => ReturnedTimes = UncachedTimes

\* a call of get_minute_candles is inside one of its two fetch loops or has
\* just left it
InLoop == call.pc \in {"split", "extend", "collected"}

\* the call has come back to its caller: with its candles, or with the
\* exception the API raised
Ended == call.pc \in {"returned", "error"}

====
